---- MODULE Spec2Model ----
(***************************************************************************)
(* Controller discovery of backend/src/api.rs (controllers) and the Xbox   *)
(* battery/status resolvers of backend/src/api/xbox.rs.                    *)
(*                                                                         *)
(* One call of controllers() is modelled as a sequence of steps, one per   *)
(* block of the function.  pc names the block control is in (or, after an  *)
(* early return, the block that returned); ret is the value returned.      *)
(* The inputs of the call (the HID listing, the fixture file, the udev     *)
(* scan, the outcome of every fallible library call) are drawn when the    *)
(* code reads them.                                                        *)
(***************************************************************************)
EXTENDS Integers, Sequences, FiniteSets, TLC

VARIABLES
  pc,               \* block of controllers() control is in
  debug,            \* cfg!(debug_assertions)
  fixture,          \* what parse_fake_controller found at /tmp/fake_controller.json
  hidapi,           \* hidapi.device_list(): the ordered HID records
  controllers,      \* the Vec the name `controllers` is bound to (moved out
                    \* by `Ok(controllers)`)
  xbox_controllers, \* api.rs:71-84, after dedup_by
  unique_devices,   \* api.rs:117-118, after dedup_by
  seen_gips,        \* api.rs:173
  udev,             \* the records enumerator.scan_devices() yielded
  io,               \* outcome of HidApi::new and of the udev enumerator calls
  ret               \* what controllers() returned

vars == <<pc, debug, fixture, hidapi, controllers, xbox_controllers,
          unique_devices, seen_gips, udev, io, ret>>

---------------------------------------------------------------------------
(* Bounds of the model *)

\* longest HID listing
MaxHid == 3
\* longest udev scan
MaxUdev == 2

---------------------------------------------------------------------------
(* Identifier tables *)

MS_VENDOR_ID == 1118                                      \* 0x045e
XBOX_ONE_S_CONTROLLER_USB_PRODUCT_ID == 746               \* 0x02ea
XBOX_ONE_S_CONTROLLER_BT_PRODUCT_ID == 735                \* 0x02df
XBOX_ONE_S_LATEST_FW_PRODUCT_ID == 2848                   \* 0x0b20
XBOX_WIRELESS_CONTROLLER_USB_PRODUCT_ID == 2834           \* 0x0b12
XBOX_WIRELESS_CONTROLLER_BT_PRODUCT_ID == 2835            \* 0x0b13
XBOX_WIRELESS_ELITE_CONTROLLER_USB_PRODUCT_ID == 2816     \* 0x0b00
XBOX_WIRELESS_ELITE_CONTROLLER_BT_PRODUCT_ID == 2821      \* 0x0b05
XBOX_WIRELESS_ELITE_CONTROLLER_BTLE_PRODUCT_ID == 2850    \* 0x0b22
XBOX_ACCESSORY_PID == 766                                 \* 0x02fe

\* declared in nintendo.rs and playstation.rs; the values are the USB
\* identifiers of the devices.
VENDOR_ID_NINTENDO == 1406                                \* 0x057e
PRODUCT_ID_NINTENDO_PROCON == 8201                        \* 0x2009
DS_VENDOR_ID == 1356                                      \* 0x054c
DS3_PRODUCT_ID == 616                                     \* 0x0268
DS_PRODUCT_ID == 3302                                     \* 0x0ce6
DS_EDGE_PRODUCT_ID == 3570                                \* 0x0df2
DS4_NEW_PRODUCT_ID == 2508                                \* 0x09cc
DS4_OLD_PRODUCT_ID == 1476                                \* 0x05c4

---------------------------------------------------------------------------
(* Strings the code inspects character by character *)

StrGip == <<"g", "i", "p">>
StrInput == <<"i", "n", "p", "u", "t">>
StrGip01 == <<"g", "i", "p", "0", ".", "1">>
StrGip00 == <<"g", "i", "p", "0", ".", "0">>
StrInput5 == <<"i", "n", "p", "u", "t", "5">>
StrBattery == <<"b", "a", "t", "t", "e", "r", "y", "_">>
StrDevices == <<"d", "e", "v", "i", "c", "e", "s">>
StrLinePower == <<"l", "i", "n", "e", "_", "p", "o", "w", "e", "r">>

\* str::starts_with
StartsWith(s, p) == Len(s) >= Len(p) /\ SubSeq(s, 1, Len(p)) = p

\* str::replace for one-character patterns
Replace(s, from, to) == [i \in 1..Len(s) |-> IF s[i] = from THEN to ELSE s[i]]

---------------------------------------------------------------------------
(* The Controller record.  source and lookup are not fields of the struct:
   source records which path built the entry, lookup which step of the
   battery chain produced its capacity. *)

\* Option::None of DeviceInfo::serial_number
NoSerial == "None"

from_hidapi(device_info, name, capacity, status) ==
  [ vendor_id |-> device_info.vendor_id,
    product_id |-> device_info.product_id,
    name |-> name,
    capacity |-> capacity,
    status |-> status,
    gip |-> <<>>,
    serial_number |-> device_info.serial_number,
    bluetooth |-> (device_info.interface_number = -1),
    is_fake |-> FALSE,
    source |-> "hid",
    lookup |-> "none" ]

from_udev(device, name, capacity, status, bluetooth) ==
  [ vendor_id |-> device.vendor_id,
    product_id |-> device.product_id,
    name |-> name,
    capacity |-> capacity,
    status |-> status,
    gip |-> device.gip,
    serial_number |-> NoSerial,
    bluetooth |-> bluetooth,
    is_fake |-> FALSE,
    source |-> "udev",
    lookup |-> "none" ]

\* the record a well-formed /tmp/fake_controller.json deserializes to
FakeController ==
  [ vendor_id |-> 0,
    product_id |-> 0,
    name |-> "Fake Controller",
    capacity |-> 42,
    status |-> "Unknown",
    gip |-> <<>>,
    serial_number |-> NoSerial,
    bluetooth |-> FALSE,
    is_fake |-> TRUE,
    source |-> "fixture",
    lookup |-> "none" ]

---------------------------------------------------------------------------
(* xbox.rs *)

get_xbox_controller_name(product_id) ==
  CASE product_id = XBOX_ONE_S_CONTROLLER_USB_PRODUCT_ID -> "Xbox One S"
    [] product_id = XBOX_ONE_S_CONTROLLER_BT_PRODUCT_ID -> "Xbox One S"
    [] product_id = XBOX_ONE_S_LATEST_FW_PRODUCT_ID -> "Xbox One S"
    [] product_id = XBOX_WIRELESS_CONTROLLER_USB_PRODUCT_ID -> "Xbox Series X/S"
    [] product_id = XBOX_WIRELESS_CONTROLLER_BT_PRODUCT_ID -> "Xbox Series X/S"
    [] product_id = XBOX_WIRELESS_ELITE_CONTROLLER_USB_PRODUCT_ID -> "Xbox Elite 2"
    [] product_id = XBOX_WIRELESS_ELITE_CONTROLLER_BT_PRODUCT_ID -> "Xbox Elite 2"
    [] product_id = XBOX_WIRELESS_ELITE_CONTROLLER_BTLE_PRODUCT_ID -> "Xbox Elite 2"
    [] product_id = XBOX_ACCESSORY_PID -> "Wireless Adapter"
    [] OTHER -> "Xbox Unknown"

is_xbox_controller(vendor_id) == vendor_id = MS_VENDOR_ID

\* `percentage as u8` of an f64.  The f64 is held in tenths (557 is 55.7):
\* the cast truncates toward zero and saturates at 0 and 255.
AsU8(tenths) ==
  IF tenths < 0 THEN 0
  ELSE IF tenths \div 10 > 255 THEN 255
  ELSE tenths \div 10

\* device_path_str.split('/').find(|s| s.starts_with("battery_")):
\* <<>> when no segment has the prefix, else <<the first such segment>>
RECURSIVE FindBatterySegment(_)
FindBatterySegment(segments) ==
  IF segments = <<>> THEN <<>>
  ELSE IF StartsWith(Head(segments), StrBattery) THEN <<Head(segments)>>
  ELSE FindBatterySegment(Tail(segments))

\* the for loop of get_battery_percentage_for_gip (xbox.rs:135-157)
RECURSIVE MatchDevicePath(_, _, _)
MatchDevicePath(devices, normalized_gip, percentage) ==
  IF devices = <<>> THEN [capacity |-> 0, lookup |-> "no_match"]
  ELSE LET upower_gip == FindBatterySegment(Head(devices))
       IN IF upower_gip # <<>> /\ upower_gip[1] = normalized_gip
          THEN IF ~percentage.ok
               THEN [capacity |-> 0, lookup |-> "read_fail"]
               ELSE [capacity |-> AsU8(percentage.tenths), lookup |-> "read_ok"]
          ELSE MatchDevicePath(Tail(devices), normalized_gip, percentage)

\* upower is what the power service answers during the call: whether the
\* system bus connects, whether EnumerateDevices answers, the device paths
\* (each split at '/'), and the Percentage property (an error, or an f64
\* held in tenths).
get_battery_percentage_for_gip(gip, upower) ==
  LET normalized_gip == StrBattery \o Replace(gip, ".", "x")
  IN IF ~upower.connect THEN [capacity |-> 10, lookup |-> "conn_fail"]
     ELSE IF ~upower.enumerate THEN [capacity |-> 20, lookup |-> "enum_fail"]
     ELSE MatchDevicePath(upower.devices, normalized_gip, upower.percentage)

update_xbox_controller(controller, bluetooth, upower) ==
  LET battery == get_battery_percentage_for_gip(controller.gip, upower)
      by_gip == StartsWith(controller.gip, StrGip)
  IN [ controller EXCEPT
         !.name = get_xbox_controller_name(controller.product_id),
         !.capacity = IF by_gip THEN battery.capacity
                      ELSE IF bluetooth THEN 0
                      ELSE 100,
         !.status = IF by_gip THEN "Unknown"
                    ELSE IF bluetooth THEN "Unknown"
                    ELSE "Charging",
         !.lookup = IF by_gip THEN battery.lookup ELSE "none" ]

\* bt is what bluetooth.rs answers for the device: whether
\* get_bluetooth_address and get_battery_percentage succeed, and the
\* percentage the latter reads.
parse_xbox_controller_data(device_info, bt) ==
  LET capacity == IF bt.address_ok
                  THEN IF bt.battery_ok THEN bt.percentage ELSE 0
                  ELSE 0
      name == get_xbox_controller_name(device_info.product_id)
  IN [ from_hidapi(device_info, name, capacity, "Unknown")
         EXCEPT !.lookup = IF ~bt.address_ok THEN "addr_fail"
                           ELSE IF ~bt.battery_ok THEN "battery_fail"
                           ELSE "bt_ok" ]

---------------------------------------------------------------------------
(* Inputs of one call *)

\* HID records the listing is drawn from
HidRecord(vendor_id, product_id, serial_number, interface_number) ==
  [ vendor_id |-> vendor_id, product_id |-> product_id,
    serial_number |-> serial_number, interface_number |-> interface_number ]

HidKinds ==
  { HidRecord(VENDOR_ID_NINTENDO, PRODUCT_ID_NINTENDO_PROCON, "SN-A", -1),
    HidRecord(VENDOR_ID_NINTENDO, PRODUCT_ID_NINTENDO_PROCON, NoSerial, 0),
    HidRecord(MS_VENDOR_ID, XBOX_WIRELESS_CONTROLLER_BT_PRODUCT_ID, "SN-A", -1),
    HidRecord(MS_VENDOR_ID, XBOX_WIRELESS_CONTROLLER_USB_PRODUCT_ID, "SN-B", 0) }

HidLists == UNION { [1..n -> HidKinds] : n \in 0..MaxHid }

\* udev records of the input subsystem the scan is drawn from
UdevRecord(vendor_id, product_id, gip) ==
  [ vendor_id |-> vendor_id, product_id |-> product_id, gip |-> gip ]

UdevKinds ==
  { UdevRecord(MS_VENDOR_ID, XBOX_ACCESSORY_PID, StrGip00),
    UdevRecord(MS_VENDOR_ID, XBOX_WIRELESS_CONTROLLER_USB_PRODUCT_ID, StrGip00),
    UdevRecord(MS_VENDOR_ID, XBOX_WIRELESS_CONTROLLER_USB_PRODUCT_ID, StrInput5),
    UdevRecord(DS_VENDOR_ID, DS_PRODUCT_ID, StrGip00),
    UdevRecord(MS_VENDOR_ID, XBOX_ACCESSORY_PID, StrGip01) }

UdevLists == UNION { [1..n -> UdevKinds] : n \in 0..MaxUdev }

\* answers of the power service: the object paths are
\* .../devices/line_power and .../devices/battery_gip0x0
PathLinePower == <<StrDevices, StrLinePower>>
PathBatteryGip00 == <<StrDevices, StrBattery \o <<"g", "i", "p", "0", "x", "0">> >>

UPower(connect, enumerate, devices, percentage) ==
  [ connect |-> connect, enumerate |-> enumerate,
    devices |-> devices, percentage |-> percentage ]

PercentageErr == [ok |-> FALSE, tenths |-> 0]
PercentageOk(tenths) == [ok |-> TRUE, tenths |-> tenths]

UPowerAnswers ==
  { UPower(FALSE, FALSE, <<>>, PercentageErr),
    UPower(TRUE, FALSE, <<>>, PercentageErr),
    UPower(TRUE, TRUE, <<PathLinePower>>, PercentageErr),
    UPower(TRUE, TRUE, <<PathLinePower, PathBatteryGip00>>, PercentageErr),
    UPower(TRUE, TRUE, <<PathLinePower, PathBatteryGip00>>, PercentageOk(557)),
    UPower(TRUE, TRUE, <<PathLinePower, PathBatteryGip00>>, PercentageOk(1500)) }

\* answers of bluetooth.rs for one device
BtAnswers ==
  { [address_ok |-> FALSE, battery_ok |-> FALSE, percentage |-> 0],
    [address_ok |-> TRUE, battery_ok |-> FALSE, percentage |-> 0],
    [address_ok |-> TRUE, battery_ok |-> TRUE, percentage |-> 55] }

\* answers of the nintendo.rs and playstation.rs report parsers for one
\* device: an error, or a capacity and a charging flag
ReportAnswers ==
  { [ok |-> FALSE, capacity |-> 0, charging |-> FALSE],
    [ok |-> TRUE, capacity |-> 40, charging |-> TRUE] }

Fixtures == {"missing", "malformed", "wellformed"}

---------------------------------------------------------------------------
(* api.rs: helpers of controllers() *)

Pending == [tag |-> "Pending"]
Err == [tag |-> "Err"]
Ok(list) == [tag |-> "Ok", list |-> list]

\* Propagate with the error swallowed
PropagateSwallowed(ok, next) == next

\* the `?` operator: an Err leaves the function, an Ok goes on to `next`
Propagate(ok, next) == IF ok THEN next ELSE Err

\* Vec::dedup_by(|a, b| a.serial_number() == b.serial_number()): an element
\* is dropped when it is in the same bucket as the last element retained
RECURSIVE dedup_from(_, _)
dedup_from(kept, rest) ==
  IF rest = <<>> THEN kept
  ELSE IF kept # <<>> /\ Head(rest).serial_number = kept[Len(kept)].serial_number
       THEN dedup_from(kept, Tail(rest))
       ELSE dedup_from(Append(kept, Head(rest)), Tail(rest))

\* dedup_by_serial as a set-based dedup: every later record with a serial
\* number already seen is dropped
dedup_by_serial_seen(list) ==
  LET keep == {i \in 1..Len(list) :
                 \A j \in 1..(i - 1) : list[j].serial_number # list[i].serial_number}
  IN [k \in 1..Cardinality(keep) |->
        list[CHOOSE i \in keep : Cardinality({j \in keep : j <= i}) = k]]

dedup_by_serial(list) == dedup_from(<<>>, list)

\* seen_gips_insert with the result of insert ignored
seen_gips_insert_always(seen, gip) == [set |-> seen \cup {gip}, fresh |-> TRUE]

\* HashSet::insert: the set afterwards, and whether the value was new
seen_gips_insert(seen, gip) == [set |-> seen \cup {gip}, fresh |-> gip \notin seen]

parse_fake_controller(list, file) ==
  IF file = "wellformed" THEN Append(list, FakeController) ELSE list

\* the report parsers of nintendo.rs and playstation.rs, when they succeed
parse_controller_data(device_info, name, report) ==
  from_hidapi(device_info, name, report.capacity,
              IF report.charging THEN "Charging" ELSE "Unknown")

IsNintendoPro(device_info) ==
  /\ device_info.vendor_id = VENDOR_ID_NINTENDO
  /\ device_info.product_id = PRODUCT_ID_NINTENDO_PROCON

IsNintendoNonPro(device_info) ==
  /\ device_info.vendor_id = VENDOR_ID_NINTENDO
  /\ device_info.product_id # PRODUCT_ID_NINTENDO_PROCON

\* api.rs:39-55: the records of the Pro Controller that get parsed
nintendo_pro_choice(nintendo_pro_controllers) ==
  IF Len(nintendo_pro_controllers) = 1 \/ Len(nintendo_pro_controllers) = 2
  THEN <<nintendo_pro_controllers[1]>>
  ELSE IF Len(nintendo_pro_controllers) = 3
       THEN LET bt_controller ==
                  SelectSeq(nintendo_pro_controllers,
                            LAMBDA d : d.interface_number = -1)
            IN IF bt_controller # <<>> THEN <<bt_controller[1]>> ELSE <<>>
       ELSE <<>>

\* api.rs:73-82
XboxHidFilter(device_info) ==
  /\ device_info.vendor_id = MS_VENDOR_ID
  /\ device_info.product_id \in
       { XBOX_ONE_S_CONTROLLER_BT_PRODUCT_ID,
         XBOX_ONE_S_LATEST_FW_PRODUCT_ID,
         XBOX_WIRELESS_CONTROLLER_USB_PRODUCT_ID,
         XBOX_WIRELESS_CONTROLLER_BT_PRODUCT_ID,
         XBOX_WIRELESS_ELITE_CONTROLLER_USB_PRODUCT_ID,
         XBOX_WIRELESS_ELITE_CONTROLLER_BT_PRODUCT_ID,
         XBOX_WIRELESS_ELITE_CONTROLLER_BTLE_PRODUCT_ID }

\* api.rs:86-114: the arms of the match that parse the record
XboxHidMatch(device_info) ==
  /\ device_info.vendor_id = MS_VENDOR_ID
  /\ device_info.product_id \in
       { XBOX_ONE_S_CONTROLLER_BT_PRODUCT_ID,
         XBOX_ONE_S_LATEST_FW_PRODUCT_ID,
         XBOX_WIRELESS_CONTROLLER_BT_PRODUCT_ID,
         XBOX_WIRELESS_ELITE_CONTROLLER_BT_PRODUCT_ID,
         XBOX_WIRELESS_ELITE_CONTROLLER_BTLE_PRODUCT_ID }

\* api.rs:120-166: the arms of the match that parse the record
PlayStationMatch(device_info) ==
  /\ device_info.vendor_id = DS_VENDOR_ID
  /\ device_info.product_id \in
       { DS3_PRODUCT_ID, DS_PRODUCT_ID, DS_EDGE_PRODUCT_ID,
         DS4_NEW_PRODUCT_ID, DS4_OLD_PRODUCT_ID }

playstation_name(product_id) ==
  CASE product_id = DS3_PRODUCT_ID -> "DualShock3"
    [] product_id = DS_PRODUCT_ID -> "DualSense"
    [] product_id = DS_EDGE_PRODUCT_ID -> "DualSense Edge"
    [] OTHER -> "DualShock 4"

\* a loop `for d in devices { let c = parse(d)?; controllers.push(c); }`:
\* the index of the first record whose parse fails (Len + 1 when none does)
FirstErr(reports) ==
  LET bad == {i \in DOMAIN reports : ~reports[i].ok}
  IN IF bad = {} THEN Len(reports) + 1
     ELSE CHOOSE i \in bad : \A j \in bad : i <= j

\* api.rs:175-190
RECURSIVE scan_loop(_, _, _, _)
scan_loop(devices, list, seen, upower) ==
  IF devices = <<>> THEN [controllers |-> list, seen_gips |-> seen]
  ELSE LET controller ==
             from_udev(Head(devices), "Unknown Controller", 0, "Unknown", FALSE)
       IN IF \/ ~(StartsWith(controller.gip, StrGip) \/ StartsWith(controller.gip, StrInput))
             \/ controller.gip = StrGip01
          THEN scan_loop(Tail(devices), list, seen, upower)
          ELSE LET inserted == seen_gips_insert(seen, controller.gip)
               IN IF inserted.fresh /\ is_xbox_controller(controller.vendor_id)
                  THEN scan_loop(Tail(devices),
                                 Append(list, update_xbox_controller(controller, FALSE, upower)),
                                 inserted.set, upower)
                  ELSE scan_loop(Tail(devices), list, inserted.set, upower)

---------------------------------------------------------------------------
(* api.rs: the steps of controllers() *)

Init ==
  /\ pc = "open"
  /\ debug \in BOOLEAN
  /\ fixture = "unread"
  /\ hidapi = <<>>
  /\ controllers = <<>>
  /\ xbox_controllers = <<>>
  /\ unique_devices = <<>>
  /\ seen_gips = {}
  /\ udev = <<>>
  /\ io = [hid |-> "unopened", enumerator |-> "unbuilt"]
  /\ ret = Pending

\* api.rs:21-22
OpenHid ==
  /\ pc = "open" /\ ret = Pending
  /\ \E ok \in BOOLEAN :
       \E list \in (IF ok THEN HidLists ELSE {<<>>}) :
         /\ io' = [io EXCEPT !.hid = IF ok THEN "ok" ELSE "fail"]
         /\ hidapi' = list
         /\ controllers' = <<>>
         /\ ret' = Propagate(ok, Pending)
         /\ pc' = IF ret' = Pending THEN "fake" ELSE pc
  /\ UNCHANGED <<debug, fixture, xbox_controllers, unique_devices, seen_gips, udev>>

\* api.rs:24-27
ParseFake ==
  /\ pc = "fake" /\ ret = Pending
  /\ \E file \in (IF debug THEN Fixtures ELSE {"unread"}) :
       /\ fixture' = file
       /\ controllers' = IF debug THEN parse_fake_controller(controllers, file)
                         ELSE controllers
  /\ pc' = "nintendo_pro"
  /\ UNCHANGED <<debug, hidapi, xbox_controllers, unique_devices, seen_gips, udev, io, ret>>

\* the body shared by the blocks that parse `devices` with a fallible
\* parser: the records before the first failure are pushed
ParseBlock(devices, reports, next) ==
  LET n == FirstErr(reports)
  IN /\ controllers' = controllers \o
          [i \in 1..(n - 1) |->
             parse_controller_data(devices[i],
                                   IF devices[i].vendor_id = DS_VENDOR_ID
                                   THEN playstation_name(devices[i].product_id)
                                   ELSE "Nintendo",
                                   reports[i])]
     /\ ret' = Propagate(n > Len(devices), Pending)
     /\ pc' = IF ret' = Pending THEN next ELSE pc

\* api.rs:29-55
NintendoPro ==
  /\ pc = "nintendo_pro" /\ ret = Pending
  /\ LET chosen == nintendo_pro_choice(SelectSeq(hidapi, IsNintendoPro))
     IN \E reports \in [1..Len(chosen) -> ReportAnswers] :
          ParseBlock(chosen, reports, "nintendo_other")
  /\ UNCHANGED <<debug, fixture, hidapi, xbox_controllers, unique_devices, seen_gips, udev, io>>

\* api.rs:57-67
NintendoOther ==
  /\ pc = "nintendo_other" /\ ret = Pending
  /\ LET nintendo_non_pro_controllers == SelectSeq(hidapi, IsNintendoNonPro)
     IN \E reports \in [1..Len(nintendo_non_pro_controllers) -> ReportAnswers] :
          ParseBlock(nintendo_non_pro_controllers, reports, "xbox")
  /\ UNCHANGED <<debug, fixture, hidapi, xbox_controllers, unique_devices, seen_gips, udev, io>>

\* api.rs:69-115
XboxHid ==
  /\ pc = "xbox" /\ ret = Pending
  /\ LET deduped == dedup_by_serial(SelectSeq(hidapi, XboxHidFilter))
     IN \E bts \in [1..Len(deduped) -> BtAnswers] :
          LET pairs == [i \in 1..Len(deduped) |-> [d |-> deduped[i], bt |-> bts[i]]]
              parsed == SelectSeq(pairs, LAMBDA p : XboxHidMatch(p.d))
          IN /\ xbox_controllers' = deduped
             /\ controllers' = controllers \o
                  [i \in 1..Len(parsed) |->
                     parse_xbox_controller_data(parsed[i].d, parsed[i].bt)]
  /\ pc' = "playstation"
  /\ UNCHANGED <<debug, fixture, hidapi, unique_devices, seen_gips, udev, io, ret>>

\* api.rs:117-167
PlayStation ==
  /\ pc = "playstation" /\ ret = Pending
  /\ LET deduped == dedup_by_serial(hidapi)
         parsed == SelectSeq(deduped, PlayStationMatch)
     IN /\ unique_devices' = deduped
        /\ \E reports \in [1..Len(parsed) -> ReportAnswers] :
             ParseBlock(parsed, reports, "enumerator")
  /\ UNCHANGED <<debug, fixture, hidapi, xbox_controllers, seen_gips, udev, io>>

\* api.rs:169-173
EnumeratorNew ==
  /\ pc = "enumerator" /\ ret = Pending
  /\ \E r \in {"ok", "new_fail", "match_subsystem_fail"} :
       /\ io' = [io EXCEPT !.enumerator = r]
       /\ ret' = Propagate(r = "ok", Pending)
       /\ controllers' = IF ret' = Pending THEN <<>> ELSE controllers
       /\ pc' = IF ret' = Pending THEN "scan" ELSE pc
  /\ seen_gips' = {}
  /\ UNCHANGED <<debug, fixture, hidapi, xbox_controllers, unique_devices, udev>>

\* api.rs:175-192
ScanDevices ==
  /\ pc = "scan" /\ ret = Pending
  /\ \E ok \in BOOLEAN :
       \E list \in (IF ok THEN UdevLists ELSE {<<>>}) :
         \E upower \in UPowerAnswers :
           LET out == scan_loop(list, controllers, seen_gips, upower)
           IN /\ io' = [io EXCEPT !.enumerator = IF ok THEN @ ELSE "scan_fail"]
              /\ udev' = list
              /\ controllers' = <<>>
              /\ seen_gips' = out.seen_gips
              /\ ret' = Propagate(ok, Ok(out.controllers))
              /\ pc' = IF ret' = Err THEN pc ELSE "done"
  /\ UNCHANGED <<debug, fixture, hidapi, xbox_controllers, unique_devices>>

Next ==
  \/ OpenHid
  \/ ParseFake
  \/ NintendoPro
  \/ NintendoOther
  \/ XboxHid
  \/ PlayStation
  \/ EnumeratorNew
  \/ ScanDevices

Spec == Init /\ [][Next]_vars

---------------------------------------------------------------------------
(* Vocabulary of the properties *)

Returned == ret.tag = "Ok"

\* the positions of `list` that satisfy P, and the entries there in order
Positions(list, P(_)) == {i \in 1..Len(list) : P(list[i])}

Pick(list, keep) ==
  [k \in 1..Cardinality(keep) |->
     list[CHOOSE i \in keep : Cardinality({j \in keep : j <= i}) = k]]

\* the first record of every maximal run of equal serial numbers
RunStarts(list) ==
  {i \in 1..Len(list) : i = 1 \/ list[i].serial_number # list[i - 1].serial_number}

XboxComputed == pc \in {"playstation", "enumerator", "scan", "done"}
UniqueComputed ==
  \/ pc \in {"enumerator", "scan", "done"}
  \/ pc = "playstation" /\ ret = Err

\* a list with equal serial numbers at two positions separated by another one
SeparatedDuplicates(list) ==
  \E i, j, k \in 1..Len(list) :
    /\ i < j /\ j < k
    /\ list[i].serial_number = list[k].serial_number
    /\ list[i].serial_number # list[j].serial_number

EnumeratorFailures == {"new_fail", "match_subsystem_fail", "scan_fail"}
FatalFailure == io.hid = "fail" \/ io.enumerator \in EnumeratorFailures

\* api.rs:179: the identifier tokens that reach the dedup
Accepted(gip) ==
  (StartsWith(gip, StrGip) \/ StartsWith(gip, StrInput)) /\ gip # StrGip01

HidLookupFailed == {"addr_fail", "battery_fail"}
UPowerLookupFailed == {"conn_fail", "enum_fail", "no_match", "read_fail"}

---------------------------------------------------------------------------
(* Properties *)

\* C1: in the list controllers() returns no two entries share a
\* deduplication key: no two entries of the HID paths carry the same serial
\* number and no two entries of the udev path carry the same gip.
C1_NoSharedDedupKey ==
  Returned =>
    \A i, j \in 1..Len(ret.list) :
      i # j =>
        /\ (ret.list[i].source = "hid" /\ ret.list[j].source = "hid")
             => ret.list[i].serial_number # ret.list[j].serial_number
        /\ (ret.list[i].source = "udev" /\ ret.list[j].source = "udev")
             => ret.list[i].gip # ret.list[j].gip

\* C1 witness: a scan that yielded the same accepted token on two Xbox
\* records, and a list was returned with an entry for it
C1_Witness ==
  /\ Returned
  /\ \E i, j \in 1..Len(udev) :
       /\ i < j
       /\ udev[i].gip = udev[j].gip
       /\ Accepted(udev[i].gip)
       /\ is_xbox_controller(udev[i].vendor_id)
       /\ is_xbox_controller(udev[j].vendor_id)
       /\ \E k \in 1..Len(ret.list) : ret.list[k].gip = udev[i].gip

\* C2: with n Pro Controller records in the HID listing, n in 1..3, the
\* returned list holds exactly one Pro Controller entry, built from the first
\* record (n = 1, 2) or from the record with interface_number -1 (n = 3);
\* for any other n it holds none.
C2_ProControllerExactlyOne ==
  Returned =>
    LET pros == SelectSeq(hidapi, IsNintendoPro)
        n == Len(pros)
        entries == Positions(ret.list, IsNintendoPro)
    IN /\ n \in {1, 2} =>
            /\ Cardinality(entries) = 1
            /\ \A e \in entries :
                 /\ ret.list[e].serial_number = pros[1].serial_number
                 /\ ret.list[e].bluetooth = (pros[1].interface_number = -1)
       /\ n = 3 =>
            /\ Cardinality(entries) = 1
            /\ \A e \in entries : ret.list[e].bluetooth
       /\ n \notin {1, 2, 3} => entries = {}

\* C3: the serial-number dedup of the Xbox HID list and of the whole HID
\* list keeps exactly the first record of every maximal run of consecutive
\* equal serial numbers, so equal serial numbers separated by a different
\* one both survive.
C3_DedupKeepsRunFirsts ==
  /\ XboxComputed =>
       LET list == SelectSeq(hidapi, XboxHidFilter)
       IN xbox_controllers = Pick(list, RunStarts(list))
  /\ UniqueComputed => unique_devices = Pick(hidapi, RunStarts(hidapi))

\* C3 witness: the Xbox list held equal serial numbers separated by a
\* different one and all three records survived, and the whole list was
\* deduplicated too
C3_Witness ==
  /\ UniqueComputed
  /\ SeparatedDuplicates(SelectSeq(hidapi, XboxHidFilter))
  /\ Len(xbox_controllers) = 3
  /\ Len(unique_devices) = 3

\* C4: every Controller the Xbox resolvers produce has capacity in 0..100.
C4_XboxCapacityInRange ==
  /\ \A i \in 1..Len(controllers) :
       is_xbox_controller(controllers[i].vendor_id) => controllers[i].capacity \in 0..100
  /\ Returned =>
       \A i \in 1..Len(ret.list) :
         is_xbox_controller(ret.list[i].vendor_id) => ret.list[i].capacity \in 0..100

\* C5: an Xbox controller (not an accessory) whose battery lookups all
\* failed is reported with the heuristic default: Charging and 100 over USB,
\* Unknown and 0 over Bluetooth.
C5_HeuristicDefault ==
  Returned =>
    \A i \in 1..Len(ret.list) :
      LET c == ret.list[i]
      IN (is_xbox_controller(c.vendor_id) /\ c.product_id # XBOX_ACCESSORY_PID
            /\ c.lookup \in HidLookupFailed \cup UPowerLookupFailed)
           => IF c.bluetooth
              THEN c.status = "Unknown" /\ c.capacity = 0
              ELSE c.status = "Charging" /\ c.capacity = 100

\* C6: in debug mode a well-formed fixture adds exactly one entry, with
\* is_fake set, to the returned list whatever hardware is attached; a
\* missing or malformed fixture adds none.
C6_FixtureAddsOneFake ==
  Returned =>
    LET fakes == Positions(ret.list, LAMBDA c : c.is_fake)
    IN /\ (debug /\ fixture = "wellformed") => Cardinality(fakes) = 1
       /\ fixture \in {"missing", "malformed"} => fakes = {}

\* C7: controllers() returns an error only when the HID source fails to open
\* or the udev enumerator fails; no per-controller step makes it fail.
C7_OnlyFatalFailuresSurface ==
  ret = Err => FatalFailure

\* C8: an Xbox accessory (product id 0x02fe) found by the udev scan whose
\* power-service lookup failed has capacity 0 and status Charging.
C8_AccessoryLookupFailed ==
  Returned =>
    \A i \in 1..Len(ret.list) :
      LET c == ret.list[i]
      IN (c.source = "udev" /\ c.product_id = XBOX_ACCESSORY_PID
            /\ c.lookup \in UPowerLookupFailed)
           => c.capacity = 0 /\ c.status = "Charging"

\* C9: when HidApi::new fails, or the udev enumerator cannot be built,
\* configured or scanned, controllers() returns an error and no list.
C9_FatalFailureReturnsErr ==
  FatalFailure => ret = Err

\* C9 witness: the enumerator failed after controllers had been pushed from
\* HID records, and the call returned the error
C9_Witness ==
  /\ io.enumerator \in EnumeratorFailures
  /\ Len(controllers) > 0
  /\ ret = Err

\* C10: the returned list holds exactly one entry for every accepted token
\* carried by at least one Xbox-vendor record of the scan, whatever the order
\* of the scan, and that entry comes from the first such record.
C10_OneEntryPerXboxToken ==
  Returned =>
    LET carriers(t) == {i \in 1..Len(udev) :
                          udev[i].gip = t /\ is_xbox_controller(udev[i].vendor_id)}
        tokens == {udev[i].gip : i \in {k \in 1..Len(udev) :
                                          /\ Accepted(udev[k].gip)
                                          /\ is_xbox_controller(udev[k].vendor_id)}}
    IN /\ {ret.list[i].gip : i \in 1..Len(ret.list)} = tokens
       /\ \A t \in tokens :
            LET entries == {i \in 1..Len(ret.list) : ret.list[i].gip = t}
                first == CHOOSE i \in carriers(t) : \A j \in carriers(t) : i <= j
            IN /\ Cardinality(entries) = 1
               /\ \A e \in entries : ret.list[e].product_id = udev[first].product_id

====
